---- MODULE Spec2Model ----
(***************************************************************************)
(* File service: the Storage contract (storage.go), its four adapters      *)
(* (MinIO, OSS, OBS, Azure) and the request handlers of api/server.go,     *)
(* modelled over a flat key -> object store.                               *)
(*                                                                         *)
(* Object keys, prefixes and paths are sequences of one-character strings, *)
(* so that path.Dir, strings.HasSuffix, strings.Split and strings.Join are *)
(* computed character by character as the Go code computes them.           *)
(***************************************************************************)
EXTENDS Integers, Sequences, FiniteSets, TLC

\* ------------------------------------------------------------------------
\* Bounds of the model
\* ------------------------------------------------------------------------
\* number of requests that may be in flight at the same time
NTasks == 2
\* total number of requests/calls started in one behaviour
MaxCalls == 2
\* number of entries a backend returns per listing page (ListSpec)
PageSize == 2

Tasks == 1..NTasks

\* ------------------------------------------------------------------------
\* Go string helpers (package strings, package path)
\* ------------------------------------------------------------------------
\* strings.HasSuffix(s, "/")
HasSuffixSlash(s) == Len(s) > 0 /\ s[Len(s)] = "/"

\* strings.HasPrefix(s, p)
HasPrefix(s, p) == Len(p) <= Len(s) /\ SubSeq(s, 1, Len(p)) = p

\* strings.LastIndex(s, "/") + 1 (0 when s has no slash)
LastSlash(s) ==
  IF \E i \in 1..Len(s) : s[i] = "/"
  THEN CHOOSE i \in 1..Len(s) : s[i] = "/" /\ \A j \in (i+1)..Len(s) : s[j] # "/"
  ELSE 0

\* index of the first "/" of s, 0 when there is none
FirstSlash(s) ==
  IF \E i \in 1..Len(s) : s[i] = "/"
  THEN CHOOSE i \in 1..Len(s) : s[i] = "/" /\ \A j \in 1..(i-1) : s[j] # "/"
  ELSE 0

\* strings.Split(s, "/"): the segments between slashes, empty ones included
RECURSIVE SplitSlash(_)
SplitSlash(s) ==
  LET i == FirstSlash(s) IN
  IF i = 0 THEN <<s>>
  ELSE <<SubSeq(s, 1, i-1)>> \o SplitSlash(SubSeq(s, i+1, Len(s)))

\* strings.Join(parts, "/")
RECURSIVE JoinSlash(_)
JoinSlash(parts) ==
  IF Len(parts) = 0 THEN <<>>
  ELSE IF Len(parts) = 1 THEN parts[1]
  ELSE parts[1] \o <<"/">> \o JoinSlash(Tail(parts))

\* the element stack path.Clean builds: "" and "." are dropped, ".." pops
RECURSIVE CleanStack(_, _, _)
CleanStack(parts, stack, rooted) ==
  IF Len(parts) = 0 THEN stack
  ELSE LET e == parts[1] IN
       IF e = <<>> \/ e = <<".">>
       THEN CleanStack(Tail(parts), stack, rooted)
       ELSE IF e = <<".", ".">>
       THEN IF Len(stack) > 0 /\ stack[Len(stack)] # <<".", ".">>
            THEN CleanStack(Tail(parts), SubSeq(stack, 1, Len(stack)-1), rooted)
            ELSE IF rooted
            THEN CleanStack(Tail(parts), stack, rooted)
            ELSE CleanStack(Tail(parts), Append(stack, e), rooted)
       ELSE CleanStack(Tail(parts), Append(stack, e), rooted)

\* the end of path.Clean: the root slash back in front, "." for nothing
CleanOut(rooted, body) ==
  IF rooted THEN <<"/">> \o body
  ELSE IF body = <<>> THEN <<".">>
  ELSE body

\* path.Clean(p)
Clean(p) ==
  IF p = <<>> THEN <<".">>
  ELSE CleanOut(p[1] = "/", JoinSlash(CleanStack(SplitSlash(p), <<>>, p[1] = "/")))

\* path.Dir(p): all but the last element, cleaned
Dir(p) == Clean(SubSeq(p, 1, LastSlash(p)))


\* character order of the bytes used in keys (ASCII: '.' < '/' < letters)
Ord(c) ==
  CASE c = "." -> 46
    [] c = "/" -> 47
    [] c = "a" -> 97
    [] c = "b" -> 98
    [] c = "c" -> 99
    [] c = "x" -> 120
    [] c = "y" -> 121
    [] OTHER -> 122

\* s < t in the byte-wise lexicographic order in which providers list keys
RECURSIVE Less(_, _)
Less(s, t) ==
  IF Len(t) = 0 THEN FALSE
  ELSE IF Len(s) = 0 THEN TRUE
  ELSE IF s[1] = t[1] THEN Less(Tail(s), Tail(t))
  ELSE Ord(s[1]) < Ord(t[1])

\* a set of keys as the sequence a provider lists them in
RECURSIVE SortKeys(_)
SortKeys(S) ==
  IF S = {} THEN <<>>
  ELSE LET m == CHOOSE k \in S : \A o \in S \ {k} : Less(k, o)
       IN <<m>> \o SortKeys(S \ {m})

\* the elements of a sequence that satisfy a test, in order
RECURSIVE SelectNames(_, _)
SelectNames(seq, S) ==
  IF Len(seq) = 0 THEN <<>>
  ELSE IF seq[1] \in S THEN <<seq[1]>> \o SelectNames(Tail(seq), S)
  ELSE SelectNames(Tail(seq), S)

Range(seq) == {seq[i] : i \in 1..Len(seq)}

\* ------------------------------------------------------------------------
\* Errors.  The adapters return the provider client's error value as it is
\* (every "return err" / "return nil, err" of the adapters).
\* ------------------------------------------------------------------------
Nil == [type |-> "nil", code |-> ""]
\* the provider's answer for an absent key (NoSuchKey, HTTP 404)
NoSuchKey == [type |-> "provider", code |-> "NoSuchKey"]
\* any other provider or transport failure of a call
RequestFailed == [type |-> "provider", code |-> "RequestFailed"]
\* the client rejects the empty bucket/container name
InvalidBucketName == [type |-> "provider", code |-> "InvalidBucketName"]

IsNotFound(err) == err.type = "NotFound" \/ (err.type = "provider" /\ err.code = "NoSuchKey")

\* ------------------------------------------------------------------------
\* The object store behind the provider clients: a flat map from
\* <<bucket, key>> to the stored bytes and content type.
\* ------------------------------------------------------------------------
OctetStream == "application/octet-stream"
DirectoryType == "application/directory"

Has(st, b, k) == <<b, k>> \in DOMAIN st

Put(st, b, k, obj) ==
  [x \in (DOMAIN st) \cup {<<b, k>>} |-> IF x = <<b, k>> THEN obj ELSE st[x]]

Remove(st, b, k) == [x \in (DOMAIN st) \ {<<b, k>>} |-> st[x]]

\* keys of bucket b that start with prefix
KeysWithPrefix(st, b, prefix) ==
  {x[2] : x \in {y \in DOMAIN st : y[1] = b /\ HasPrefix(y[2], prefix)}}

\* outcome of a provider call that reaches the service: bucket name checked
\* by the client, then the request may fail (fault f)
CallErr(b, f) ==
  IF b = "" THEN InvalidBucketName
  ELSE IF f THEN RequestFailed
  ELSE Nil

\* one entry of a delimiter ("/") listing under prefix: the key itself, or
\* the common prefix it rolls up into
LevelEntry(k, prefix) ==
  LET rest == SubSeq(k, Len(prefix) + 1, Len(k))
      i == FirstSlash(rest)
  IN IF i = 0 THEN [name |-> k, common |-> FALSE]
     ELSE [name |-> prefix \o SubSeq(rest, 1, i), common |-> TRUE]

\* the entries of a delimiter listing of bucket b under prefix
LevelEntries(st, b, prefix) ==
  {LevelEntry(k, prefix) : k \in KeysWithPrefix(st, b, prefix)}

\* one page of a listing: the first n names after marker, whether the
\* listing goes on, and the marker of the next page
ListPage(names, marker, n) ==
  LET after == SelectNames(names, {k \in Range(names) : marker = <<>> \/ Less(marker, k)})
      page == SubSeq(after, 1, IF Len(after) < n THEN Len(after) ELSE n)
  IN [names |-> page,
      isTruncated |-> Len(after) > n,
      nextMarker |-> IF Len(page) = 0 THEN marker ELSE page[Len(page)]]


\* ------------------------------------------------------------------------
\* Byte streams returned by Download
\* ------------------------------------------------------------------------
NoStream == [kind |-> "none", bucket |-> "", key |-> <<>>, data |-> <<>>]
\* minio-go's GetObject sends no request: the object is fetched on first Read
LazyStream(b, k) == [kind |-> "lazy", bucket |-> b, key |-> k, data |-> <<>>]
\* a response body that is already being received
BodyStream(d) == [kind |-> "body", bucket |-> "", key |-> <<>>, data |-> d]

\* io.Copy(dst, stream): the bytes that reach dst and the error; f: the read
\* fails part-way
CopyStream(stream, st, f) ==
  IF stream.kind = "lazy"
  THEN IF f THEN [err |-> RequestFailed, data |-> <<>>]
       ELSE IF Has(st, stream.bucket, stream.key)
       THEN [err |-> Nil, data |-> st[<<stream.bucket, stream.key>>].data]
       ELSE [err |-> NoSuchKey, data |-> <<>>]
  ELSE IF f /\ Len(stream.data) > 0
       THEN [err |-> RequestFailed, data |-> SubSeq(stream.data, 1, Len(stream.data) - 1)]
       ELSE [err |-> Nil, data |-> stream.data]

FileObject(name, size, ctype, isDir) ==
  [Name |-> name, Size |-> size, ContentType |-> ctype, IsDir |-> isDir]

NoObject == FileObject(<<>>, 0, "", FALSE)

\* EnsurePathExists after dir := path.Dir(objectPath): <<>> when the parent is
\* the root and there is nothing to do, else dir with its trailing "/"
MarkerOfDir(dir) ==
  IF dir = <<".">> \/ dir = <<"/">> THEN <<>>
  ELSE IF ~HasSuffixSlash(dir) THEN dir \o <<"/">>
  ELSE dir

\* MarkerDir without "Ensure the directory path ends with /"
MarkerDir_NoTrailingSlash(objectPath) ==
  IF Dir(objectPath) \in {<<".">>, <<"/">>} THEN <<>> ELSE Dir(objectPath)

\* the directory whose marker EnsurePathExists looks for
MarkerDir(objectPath) == MarkerOfDir(Dir(objectPath))

\* the answer of the existence probe of EnsurePathExists on the key dir
\* (StatObject, GetObjectDetailedMeta, GetObjectMetadata, DownloadStream)
ProbeErr(st, b, dir, f) ==
  IF b = "" THEN InvalidBucketName
  ELSE IF f THEN RequestFailed
  ELSE IF Has(st, b, dir) THEN Nil
  ELSE NoSuchKey

\* what EnsurePathExists does when there is nothing to probe, and after a probe
EnsureNothingToDo == [next |-> "return", err |-> Nil, dir |-> <<>>, probed |-> FALSE]
EnsureReturn(dir, err) == [next |-> "return", err |-> err, dir |-> dir, probed |-> TRUE]
EnsureGoCreate(dir) == [next |-> "create", err |-> Nil, dir |-> dir, probed |-> TRUE]

\* MarkerName that takes objectName as it is given
MarkerName_AsGiven(objectName) == objectName

\* CreateDirectory's key: objectName with "/" appended when missing
MarkerName(objectName) ==
  IF ~HasSuffixSlash(objectName) THEN objectName \o <<"/">> ELSE objectName

\* ------------------------------------------------------------------------
\* MinIOStorage
\* ------------------------------------------------------------------------
\* PutObject(..., reader, size, opts): sends size bytes of the reader (a size
\* of 0 sends no body); an empty content type is stored as octet-stream
MinIOUpload(st, b, k, data, size, ct, f) ==
  LET e == CallErr(b, f) IN
  IF e # Nil THEN [err |-> e, st |-> st]
  ELSE IF size # 0 /\ size # Len(data) THEN [err |-> RequestFailed, st |-> st]
  ELSE [err |-> Nil,
        st |-> Put(st, b, k, [data |-> IF size = 0 THEN <<>> ELSE data,
                               ctype |-> IF ct = "" THEN OctetStream ELSE ct])]

MinIODownload(st, b, k, f) ==
  IF b = "" THEN [err |-> InvalidBucketName, stream |-> NoStream]
  ELSE [err |-> Nil, stream |-> LazyStream(b, k)]

MinIODelete(st, b, k, f) ==
  LET e == CallErr(b, f) IN
  IF e # Nil THEN [err |-> e, st |-> st]
  ELSE [err |-> Nil, st |-> Remove(st, b, k)]

MinIOList(st, b, prefix, f) ==
  LET e == CallErr(b, f) IN
  IF e # Nil THEN [err |-> e, objects |-> <<>>]
  ELSE LET names == SortKeys(KeysWithPrefix(st, b, prefix)) IN
       [err |-> Nil,
        objects |-> [i \in 1..Len(names) |->
                       FileObject(names[i], Len(st[<<b, names[i]>>].data), "", FALSE)]]

MinIOGetObjectInfo(st, b, k, f) ==
  LET e == CallErr(b, f) IN
  IF e # Nil THEN [err |-> e, info |-> NoObject]
  ELSE IF ~Has(st, b, k) THEN [err |-> NoSuchKey, info |-> NoObject]
  ELSE [err |-> Nil,
        info |-> FileObject(k, Len(st[<<b, k>>].data), st[<<b, k>>].ctype, FALSE)]

MinIOListDirectories(st, b, prefix, f) ==
  LET e == CallErr(b, f) IN
  IF e # Nil THEN [err |-> e, objects |-> <<>>]
  ELSE LET entries == LevelEntries(st, b, prefix)
           names == SortKeys({x.name : x \in entries})
           dirs == SelectNames(names, {n \in Range(names) : HasSuffixSlash(n)})
       IN [err |-> Nil,
           objects |-> [i \in 1..Len(dirs) |->
                          FileObject(dirs[i],
                                     IF Has(st, b, dirs[i]) /\ [name |-> dirs[i], common |-> FALSE] \in entries
                                     THEN Len(st[<<b, dirs[i]>>].data) ELSE 0,
                                     "", TRUE)]]

\* MinIOCreateDirectory that refuses to write a marker that is there already
MinIOCreateDirectory_FailIfExists(st, b, objectName, f) ==
  IF CallErr(b, f) # Nil \/ Has(st, b, MarkerName(objectName))
  THEN [err |-> RequestFailed, st |-> st]
  ELSE [err |-> Nil,
        st |-> Put(st, b, MarkerName(objectName), [data |-> <<>>, ctype |-> DirectoryType])]

MinIOCreateDirectory(st, b, objectName, f) ==
  LET e == CallErr(b, f) IN
  IF e # Nil THEN [err |-> e, st |-> st]
  ELSE [err |-> Nil,
        st |-> Put(st, b, MarkerName(objectName), [data |-> <<>>, ctype |-> DirectoryType])]

\* MinIOEnsureAnswer that creates the marker after any failed probe
MinIOEnsureAnswer_CreateOnError(dir, err) ==
  IF err = Nil THEN EnsureReturn(dir, Nil) ELSE EnsureGoCreate(dir)

\* EnsurePathExists from the answer err of StatObject(dir) on
MinIOEnsureAnswer(dir, err) ==
  IF err = Nil THEN EnsureReturn(dir, Nil)
  ELSE IF err.code # "NoSuchKey" THEN EnsureReturn(dir, err)
  ELSE EnsureGoCreate(dir)

MinIOEnsureAt(st, b, dir, f) ==
  IF dir = <<>> THEN EnsureNothingToDo
  ELSE MinIOEnsureAnswer(dir, ProbeErr(st, b, dir, f))

\* EnsurePathExists up to and including the existence probe: what the call
\* does next
MinIOEnsureProbe(st, b, objectPath, f) == MinIOEnsureAt(st, b, MarkerDir(objectPath), f)

\* ------------------------------------------------------------------------
\* OSSStorage
\* ------------------------------------------------------------------------
OSSUpload(st, b, k, data, size, ct, f) ==
  LET e == CallErr(b, f) IN
  IF e # Nil THEN [err |-> e, st |-> st]
  ELSE [err |-> Nil,
        st |-> Put(st, b, k, [data |-> data, ctype |-> IF ct # "" THEN ct ELSE OctetStream])]

OSSDownload(st, b, k, f) ==
  LET e == CallErr(b, f) IN
  IF e # Nil THEN [err |-> e, stream |-> NoStream]
  ELSE IF ~Has(st, b, k) THEN [err |-> NoSuchKey, stream |-> NoStream]
  ELSE [err |-> Nil, stream |-> BodyStream(st[<<b, k>>].data)]

OSSDelete(st, b, k, f) ==
  LET e == CallErr(b, f) IN
  IF e # Nil THEN [err |-> e, st |-> st]
  ELSE [err |-> Nil, st |-> Remove(st, b, k)]

\* one ListObjects request with oss.MaxKeys: the first page only
OSSList(st, b, prefix, f) ==
  LET e == CallErr(b, f) IN
  IF e # Nil THEN [err |-> e, objects |-> <<>>]
  ELSE LET names == ListPage(SortKeys(KeysWithPrefix(st, b, prefix)), <<>>, PageSize).names IN
       [err |-> Nil,
        objects |-> [i \in 1..Len(names) |->
                       FileObject(names[i], Len(st[<<b, names[i]>>].data), "Normal", FALSE)]]

OSSGetObjectInfo(st, b, k, f) ==
  LET e == CallErr(b, f) IN
  IF e # Nil THEN [err |-> e, info |-> NoObject]
  ELSE IF ~Has(st, b, k) THEN [err |-> NoSuchKey, info |-> NoObject]
  ELSE [err |-> Nil,
        info |-> FileObject(k, Len(st[<<b, k>>].data), st[<<b, k>>].ctype, FALSE)]

OSSCreateDirectory(st, b, objectName, f) ==
  LET e == CallErr(b, f) IN
  IF e # Nil THEN [err |-> e, st |-> st]
  ELSE [err |-> Nil,
        st |-> Put(st, b, MarkerName(objectName), [data |-> <<>>, ctype |-> DirectoryType])]

\* the for loop of ListDirectories: one delimiter page per iteration, the
\* page's CommonPrefixes appended, marker = NextMarker while IsTruncated
RECURSIVE OSSListDirectoriesLoop(_, _, _, _)
OSSListDirectoriesLoop(entries, names, marker, dirs) ==
  LET lsRes == ListPage(names, marker, PageSize)
      commonPrefixes == SelectNames(lsRes.names, {x.name : x \in {y \in entries : y.common}})
      dirs2 == dirs \o [i \in 1..Len(commonPrefixes) |->
                          FileObject(commonPrefixes[i], 0, DirectoryType, TRUE)]
  IN IF lsRes.isTruncated
     THEN OSSListDirectoriesLoop(entries, names, lsRes.nextMarker, dirs2)
     ELSE dirs2

OSSListDirectories(st, b, prefix, f) ==
  LET e == CallErr(b, f) IN
  IF e # Nil THEN [err |-> e, objects |-> <<>>]
  ELSE LET entries == LevelEntries(st, b, prefix) IN
       [err |-> Nil,
        objects |-> OSSListDirectoriesLoop(entries, SortKeys({x.name : x \in entries}), <<>>, <<>>)]

\* OSSEnsureAnswer that returns nil on NoSuchKey instead of creating
OSSEnsureAnswer_NotFoundIsOk(dir, err) ==
  IF err = Nil \/ err.code = "NoSuchKey" THEN EnsureReturn(dir, Nil)
  ELSE EnsureReturn(dir, err)

\* EnsurePathExists from the answer err of GetObjectDetailedMeta(dir) on
OSSEnsureAnswer(dir, err) ==
  IF err = Nil THEN EnsureReturn(dir, Nil)
  ELSE IF err.type = "provider" /\ err.code = "NoSuchKey" THEN EnsureGoCreate(dir)
  ELSE EnsureReturn(dir, err)

\* o.client.Bucket(bucket) comes before the probe
OSSEnsureAt(st, b, dir, f) ==
  IF dir = <<>> THEN EnsureNothingToDo
  ELSE IF b = "" THEN [next |-> "return", err |-> InvalidBucketName, dir |-> dir, probed |-> FALSE]
  ELSE OSSEnsureAnswer(dir, ProbeErr(st, b, dir, f))

OSSEnsureProbe(st, b, objectPath, f) == OSSEnsureAt(st, b, MarkerDir(objectPath), f)

\* ------------------------------------------------------------------------
\* OBStorage
\* ------------------------------------------------------------------------
OBSUpload(st, b, k, data, size, ct, f) ==
  LET e == CallErr(b, f) IN
  IF e # Nil THEN [err |-> e, st |-> st]
  ELSE [err |-> Nil,
        st |-> Put(st, b, k, [data |-> data, ctype |-> IF ct # "" THEN ct ELSE ""])]

OBSDownload(st, b, k, f) ==
  LET e == CallErr(b, f) IN
  IF e # Nil THEN [err |-> e, stream |-> NoStream]
  ELSE IF ~Has(st, b, k) THEN [err |-> NoSuchKey, stream |-> NoStream]
  ELSE [err |-> Nil, stream |-> BodyStream(st[<<b, k>>].data)]

OBSDelete(st, b, k, f) ==
  LET e == CallErr(b, f) IN
  IF e # Nil THEN [err |-> e, st |-> st]
  ELSE [err |-> Nil, st |-> Remove(st, b, k)]

\* one ListObjects request: the first page only
OBSList(st, b, prefix, f) ==
  LET e == CallErr(b, f) IN
  IF e # Nil THEN [err |-> e, objects |-> <<>>]
  ELSE LET names == ListPage(SortKeys(KeysWithPrefix(st, b, prefix)), <<>>, PageSize).names IN
       [err |-> Nil,
        objects |-> [i \in 1..Len(names) |->
                       FileObject(names[i], Len(st[<<b, names[i]>>].data), "STANDARD", FALSE)]]

OBSGetObjectInfo(st, b, k, f) ==
  LET e == CallErr(b, f) IN
  IF e # Nil THEN [err |-> e, info |-> NoObject]
  ELSE IF ~Has(st, b, k) THEN [err |-> NoSuchKey, info |-> NoObject]
  ELSE LET contentType == st[<<b, k>>].ctype IN
       [err |-> Nil,
        info |-> FileObject(k, Len(st[<<b, k>>].data),
                            IF contentType = "" THEN OctetStream ELSE contentType, FALSE)]

\* one delimiter ListObjects request: the CommonPrefixes of the first page
OBSListDirectories(st, b, prefix, f) ==
  LET e == CallErr(b, f) IN
  IF e # Nil THEN [err |-> e, objects |-> <<>>]
  ELSE LET entries == LevelEntries(st, b, prefix)
           result == ListPage(SortKeys({x.name : x \in entries}), <<>>, PageSize)
           commonPrefixes == SelectNames(result.names, {x.name : x \in {y \in entries : y.common}})
       IN [err |-> Nil,
           objects |-> [i \in 1..Len(commonPrefixes) |->
                          FileObject(commonPrefixes[i], 0, DirectoryType, TRUE)]]

OBSCreateDirectory(st, b, objectName, f) ==
  LET e == CallErr(b, f) IN
  IF e # Nil THEN [err |-> e, st |-> st]
  ELSE [err |-> Nil,
        st |-> Put(st, b, MarkerName(objectName), [data |-> <<>>, ctype |-> DirectoryType])]

\* EnsurePathExists from the answer err of GetObjectMetadata(dir) on
OBSEnsureAnswer(dir, err) ==
  IF err = Nil THEN EnsureReturn(dir, Nil)
  ELSE IF err.type = "provider" /\ (err.code = "NoSuchKey" \/ err.code = "404")
  THEN EnsureGoCreate(dir)
  ELSE EnsureReturn(dir, err)

OBSEnsureAt(st, b, dir, f) ==
  IF dir = <<>> THEN EnsureNothingToDo
  ELSE OBSEnsureAnswer(dir, ProbeErr(st, b, dir, f))

OBSEnsureProbe(st, b, objectPath, f) == OBSEnsureAt(st, b, MarkerDir(objectPath), f)

\* ------------------------------------------------------------------------
\* AzureStorage
\* ------------------------------------------------------------------------
AzureUpload(st, b, k, data, size, ct, f) ==
  LET e == CallErr(b, f) IN
  IF e # Nil THEN [err |-> e, st |-> st]
  ELSE [err |-> Nil,
        st |-> Put(st, b, k, [data |-> data, ctype |-> IF ct # "" THEN ct ELSE OctetStream])]

AzureDownload(st, b, k, f) ==
  LET e == CallErr(b, f) IN
  IF e # Nil THEN [err |-> e, stream |-> NoStream]
  ELSE IF ~Has(st, b, k) THEN [err |-> NoSuchKey, stream |-> NoStream]
  ELSE [err |-> Nil, stream |-> BodyStream(st[<<b, k>>].data)]

\* DeleteBlob answers 404 for a blob that does not exist
AzureDelete(st, b, k, f) ==
  LET e == CallErr(b, f) IN
  IF e # Nil THEN [err |-> e, st |-> st]
  ELSE IF ~Has(st, b, k) THEN [err |-> NoSuchKey, st |-> st]
  ELSE [err |-> Nil, st |-> Remove(st, b, k)]

\* the pager loop of List: every page, in order
RECURSIVE AzureListLoop(_, _, _)
AzureListLoop(names, marker, objects) ==
  LET resp == ListPage(names, marker, PageSize)
      objects2 == objects \o resp.names
  IN IF resp.isTruncated THEN AzureListLoop(names, resp.nextMarker, objects2)
     ELSE objects2

AzureList(st, b, prefix, f) ==
  LET e == CallErr(b, f) IN
  IF e # Nil THEN [err |-> e, objects |-> <<>>]
  ELSE LET names == AzureListLoop(SortKeys(KeysWithPrefix(st, b, prefix)), <<>>, <<>>) IN
       [err |-> Nil,
        objects |-> [i \in 1..Len(names) |->
                       FileObject(names[i], Len(st[<<b, names[i]>>].data),
                                  st[<<b, names[i]>>].ctype, FALSE)]]

AzureGetObjectInfo(st, b, k, f) ==
  LET e == CallErr(b, f) IN
  IF e # Nil THEN [err |-> e, info |-> NoObject]
  ELSE IF ~Has(st, b, k) THEN [err |-> NoSuchKey, info |-> NoObject]
  ELSE [err |-> Nil,
        info |-> FileObject(k, Len(st[<<b, k>>].data), st[<<b, k>>].ctype, FALSE)]

\* AzureAddParents without the dirMap test
RECURSIVE AzureAddParents_NoDedup(_, _, _)
AzureAddParents_NoDedup(parts, i, acc) ==
  IF i >= Len(parts) THEN acc
  ELSE LET dirPath == JoinSlash(SubSeq(parts, 1, i)) \o <<"/">> IN
       AzureAddParents_NoDedup(parts, i + 1,
         [dirMap |-> acc.dirMap \cup {dirPath},
          dirs |-> Append(acc.dirs, FileObject(dirPath, 0, DirectoryType, TRUE))])

\* for i := 1; i < len(parts); i++: the ancestors of one blob name that
\* dirMap does not hold yet; acc = [dirMap, dirs]
RECURSIVE AzureAddParents(_, _, _)
AzureAddParents(parts, i, acc) ==
  IF i >= Len(parts) THEN acc
  ELSE LET dirPath == JoinSlash(SubSeq(parts, 1, i)) \o <<"/">> IN
       IF dirPath \notin acc.dirMap
       THEN AzureAddParents(parts, i + 1,
              [dirMap |-> acc.dirMap \cup {dirPath},
               dirs |-> Append(acc.dirs, FileObject(dirPath, 0, DirectoryType, TRUE))])
       ELSE AzureAddParents(parts, i + 1, acc)

\* for _, blob := range resp.Segment.BlobItems
RECURSIVE AzureAddBlobs(_, _)
AzureAddBlobs(blobs, acc) ==
  IF Len(blobs) = 0 THEN acc
  ELSE LET parts == SplitSlash(blobs[1]) IN
       AzureAddBlobs(Tail(blobs),
                     IF Len(parts) > 1 THEN AzureAddParents(parts, 1, acc) ELSE acc)

\* for pager.More(): dirMap and dirs live across the pages
RECURSIVE AzureListDirectoriesLoop(_, _, _)
AzureListDirectoriesLoop(names, marker, acc) ==
  LET resp == ListPage(names, marker, PageSize)
      acc2 == AzureAddBlobs(resp.names, acc)
  IN IF resp.isTruncated THEN AzureListDirectoriesLoop(names, resp.nextMarker, acc2)
     ELSE acc2

AzureListDirectories(st, b, prefix, f) ==
  LET e == CallErr(b, f) IN
  IF e # Nil THEN [err |-> e, objects |-> <<>>]
  ELSE [err |-> Nil,
        objects |-> AzureListDirectoriesLoop(SortKeys(KeysWithPrefix(st, b, prefix)), <<>>,
                                             [dirMap |-> {}, dirs |-> <<>>]).dirs]

AzureCreateDirectory(st, b, objectName, f) ==
  LET e == CallErr(b, f) IN
  IF e # Nil THEN [err |-> e, st |-> st]
  ELSE [err |-> Nil,
        st |-> Put(st, b, MarkerName(objectName), [data |-> <<>>, ctype |-> DirectoryType])]

\* EnsurePathExists from the answer err of DownloadStream(dir) on
AzureEnsureAnswer(dir, err) ==
  IF err = Nil THEN EnsureReturn(dir, Nil)
  ELSE IF err.type = "provider" /\ err.code = "NoSuchKey" THEN EnsureGoCreate(dir)
  ELSE EnsureReturn(dir, err)

AzureEnsureAt(st, b, dir, f) ==
  IF dir = <<>> THEN EnsureNothingToDo
  ELSE AzureEnsureAnswer(dir, ProbeErr(st, b, dir, f))

AzureEnsureProbe(st, b, objectPath, f) == AzureEnsureAt(st, b, MarkerDir(objectPath), f)

\* ------------------------------------------------------------------------
\* Storage interface: the call goes to the adapter createStorage selected
\* ------------------------------------------------------------------------
Backends == {"minio", "oss", "obs", "azure"}

Upload(be, st, b, k, data, size, ct, f) ==
  CASE be = "minio" -> MinIOUpload(st, b, k, data, size, ct, f)
    [] be = "oss" -> OSSUpload(st, b, k, data, size, ct, f)
    [] be = "obs" -> OBSUpload(st, b, k, data, size, ct, f)
    [] OTHER -> AzureUpload(st, b, k, data, size, ct, f)

\* ctx.Err() of a cancelled request context
Canceled == [type |-> "context", code |-> "canceled"]

\* Upload with its ctx argument: MinIO and Azure hand ctx to the provider call,
\* which ends with ctx.Err() before anything is sent when ctx is cancelled;
\* OSS and OBS make their provider call without ctx
UploadCtx(be, cancelled, st, b, k, data, size, ct, f) ==
  IF cancelled /\ be \in {"minio", "azure"} THEN [err |-> Canceled, st |-> st]
  ELSE Upload(be, st, b, k, data, size, ct, f)

Download(be, st, b, k, f) ==
  CASE be = "minio" -> MinIODownload(st, b, k, f)
    [] be = "oss" -> OSSDownload(st, b, k, f)
    [] be = "obs" -> OBSDownload(st, b, k, f)
    [] OTHER -> AzureDownload(st, b, k, f)

Delete(be, st, b, k, f) ==
  CASE be = "minio" -> MinIODelete(st, b, k, f)
    [] be = "oss" -> OSSDelete(st, b, k, f)
    [] be = "obs" -> OBSDelete(st, b, k, f)
    [] OTHER -> AzureDelete(st, b, k, f)

List(be, st, b, prefix, f) ==
  CASE be = "minio" -> MinIOList(st, b, prefix, f)
    [] be = "oss" -> OSSList(st, b, prefix, f)
    [] be = "obs" -> OBSList(st, b, prefix, f)
    [] OTHER -> AzureList(st, b, prefix, f)

GetObjectInfo(be, st, b, k, f) ==
  CASE be = "minio" -> MinIOGetObjectInfo(st, b, k, f)
    [] be = "oss" -> OSSGetObjectInfo(st, b, k, f)
    [] be = "obs" -> OBSGetObjectInfo(st, b, k, f)
    [] OTHER -> AzureGetObjectInfo(st, b, k, f)

CreateDirectory(be, st, b, objectName, f) ==
  CASE be = "minio" -> MinIOCreateDirectory(st, b, objectName, f)
    [] be = "oss" -> OSSCreateDirectory(st, b, objectName, f)
    [] be = "obs" -> OBSCreateDirectory(st, b, objectName, f)
    [] OTHER -> AzureCreateDirectory(st, b, objectName, f)

ListDirectories(be, st, b, prefix, f) ==
  CASE be = "minio" -> MinIOListDirectories(st, b, prefix, f)
    [] be = "oss" -> OSSListDirectories(st, b, prefix, f)
    [] be = "obs" -> OBSListDirectories(st, b, prefix, f)
    [] OTHER -> AzureListDirectories(st, b, prefix, f)

EnsureProbe(be, st, b, objectPath, f) ==
  CASE be = "minio" -> MinIOEnsureProbe(st, b, objectPath, f)
    [] be = "oss" -> OSSEnsureProbe(st, b, objectPath, f)
    [] be = "obs" -> OBSEnsureProbe(st, b, objectPath, f)
    [] OTHER -> AzureEnsureProbe(st, b, objectPath, f)


\* ------------------------------------------------------------------------
\* Requests
\* ------------------------------------------------------------------------
\* viper.SetDefault("storage.bucket", "default")
DefaultBucket == "default"

ax == <<"a", "/", "x">>
ay == <<"a", "/", "y">>
abc == <<"a", "/", "b", "/", "c">>
adir == <<"a", "/">>
abdir == <<"a", "/", "b", "/">>
zkey == <<"z">>
bx == <<"b", "/", "x">>

Marker == [data |-> <<>>, ctype |-> DirectoryType]
TextFile(d) == [data |-> d, ctype |-> "text/plain"]

\* bucket contents at start-up
InitStores ==
  { <<>>,
    [k \in {<<"media", adir>>, <<"media", ax>>, <<"media", ay>>} |->
       IF k[2] = adir THEN Marker ELSE TextFile(<<7>>)],
    [k \in {<<"media", ax>>, <<"media", ay>>, <<"media", abc>>, <<"media", bx>>,
             <<DefaultBucket, ay>>} |-> TextFile(<<8, 9>>)] }

\* upload requests: bucket and object of the route, the body, the
\* Content-Type header and the Content-Length header ("" when the body is
\* sent chunked; otherwise the server has checked it against the body)
UploadRequests ==
  { [bucket |-> "media", object |-> ax, body |-> <<7>>, contentType |-> "text/plain", contentLength |-> "1"],
    [bucket |-> "media", object |-> ax, body |-> <<8, 9>>, contentType |-> "", contentLength |-> ""],
    [bucket |-> "media", object |-> abc, body |-> <<7>>, contentType |-> "text/plain", contentLength |-> "1"],
    [bucket |-> "media", object |-> zkey, body |-> <<7>>, contentType |-> "", contentLength |-> "x"],
    [bucket |-> "media", object |-> adir, body |-> <<7>>, contentType |-> "text/plain", contentLength |-> "1"],
    [bucket |-> "", object |-> ay, body |-> <<7>>, contentType |-> "text/plain", contentLength |-> "1"] }

\* bucket and object path, prefix or key of the other requests and calls
EnsureCalls == {<<"media", ax>>, <<"media", abc>>, <<"media", zkey>>}
DownloadFileRequests == {<<"media", ax>>, <<"media", zkey>>, <<"", ay>>}
DownloadDirRequests == {<<"media", <<"a">>>>, <<"media", zkey>>, <<"", adir>>}
DeleteObjectsRequests == {<<"media", adir>>, <<"media", zkey>>, <<"", <<"a">>>>}
DeleteFileRequests == {<<"media", ax>>, <<"media", adir>>}
ListDirectoriesCalls == {<<"media", <<>>>>, <<"media", adir>>}
CreateDirectoryCalls == {<<"media", <<"a">>>>, <<"media", adir>>, <<"media", <<"a", "/", "/">>>>}

\* strconv.ParseInt(contentLengthStr, 10, 64)
ParseInt(str) ==
  CASE str = "0" -> [err |-> FALSE, n |-> 0]
    [] str = "1" -> [err |-> FALSE, n |-> 1]
    [] str = "2" -> [err |-> FALSE, n |-> 2]
    [] OTHER -> [err |-> TRUE, n |-> 0]

\* ------------------------------------------------------------------------
\* State
\* ------------------------------------------------------------------------
VARIABLES
  backend,     \* the adapter selected at start-up (Server.storage)
  store,       \* the provider's objects
  task,        \* the requests in flight: position and local variables
  calls,       \* number of requests started
  lastUpload,  \* history: keys whose latest write is a successful Upload
  lastEnsure   \* history: the EnsurePathExists call that returned nil last,
               \* while no other call has touched the provider since

vars == <<backend, store, task, calls, lastUpload, lastEnsure>>

NoCall == <<>>

\* history: the version of the object stored when Download was called
NoVersion == [data |-> <<>>, ctype |-> ""]

Idle ==
  [op |-> "idle", pc |-> "idle", bucket |-> "", key |-> <<>>, prefix |-> <<>>,
   body |-> <<>>, contentType |-> "", contentLength |-> "", dir |-> <<>>,
   objects |-> <<>>, idx |-> 0, stream |-> NoStream,
   zip |-> <<>>, skipped |-> <<>>, deleted |-> <<>>, errors |-> <<>>, attempts |-> <<>>,
   err |-> Nil, status |-> 0, header |-> "", out |-> <<>>,
   writes |-> 0, probes |-> 0, repeat |-> FALSE, dirty |-> FALSE, cancelled |-> FALSE,
   ensured |-> FALSE, uploads |-> 0, fault |-> FALSE, open |-> 0,
   faultCreate |-> FALSE, seen |-> NoVersion, leaked |-> 0]

Init ==
  /\ backend \in Backends
  /\ store \in InitStores
  /\ task = [t \in Tasks |-> Idle]
  /\ calls = 0
  /\ lastUpload = <<>>
  /\ lastEnsure = NoCall

\* task t moves to rec; when the step changed the store, the other requests
\* in flight have seen a concurrent write.  A request that has returned
\* delivers its response (Finish) before anything else happens.
Step(t, rec, st) ==
  /\ \A u \in Tasks : task[u].pc # "done"
  /\ store' = st
  /\ task' = [u \in Tasks |->
                IF u = t THEN rec
                ELSE IF st # store /\ task[u].pc # "idle"
                THEN [task[u] EXCEPT !.dirty = TRUE]
                ELSE task[u]]
  /\ UNCHANGED backend

\* history of the latest write of <<b, k>>
Forget(b, k) == [x \in (DOMAIN lastUpload) \ {<<b, k>>} |-> lastUpload[x]]
Remember(b, k, body, ct) ==
  [x \in (DOMAIN lastUpload) \cup {<<b, k>>} |->
     IF x = <<b, k>> THEN [data |-> body, ctype |-> ct] ELSE lastUpload[x]]

\* a new request takes the first free slot
Begin(t) ==
  /\ task[t].pc = "idle"
  /\ \A u \in Tasks : u < t => task[u].pc # "idle"
  /\ calls < MaxCalls
  /\ calls' = calls + 1


\* ------------------------------------------------------------------------
\* EnsurePathExists (Storage interface call) and Server.uploadFile
\* ------------------------------------------------------------------------
\* AfterEnsure that goes on to Upload whatever EnsurePathExists has returned
AfterEnsure_IgnoreError(rec, err) ==
  IF rec.op = "EnsurePathExists" THEN [rec EXCEPT !.pc = "done", !.err = err]
  ELSE [rec EXCEPT !.pc = "upload"]

\* where a request goes once EnsurePathExists has returned err
AfterEnsure(rec, err) ==
  IF rec.op = "EnsurePathExists" THEN [rec EXCEPT !.pc = "done", !.err = err]
  ELSE IF err # Nil THEN [rec EXCEPT !.pc = "done", !.err = err, !.status = 500]
  ELSE [rec EXCEPT !.pc = "upload"]

\* the streams the probe of EnsurePathExists has opened and not closed when
\* it has answered r: Azure probes with DownloadStream and drops the response,
\* body included, when the marker is found; the other adapters ask for the
\* object's metadata, which comes without a body
ProbeStreams(be, r) ==
  IF be = "azure" /\ r.probed /\ r.next = "return" /\ r.err = Nil THEN 1 ELSE 0

\* the request once the probe of EnsurePathExists has answered r
EnsureProbed(rec, r, repeat) ==
  IF r.next = "create"
  THEN [rec EXCEPT !.pc = "create", !.dir = r.dir, !.repeat = repeat,
                   !.probes = IF r.probed THEN 1 ELSE 0]
  ELSE AfterEnsure([rec EXCEPT !.dir = r.dir, !.repeat = repeat,
                               !.probes = IF r.probed THEN 1 ELSE 0,
                               !.ensured = (r.err = Nil)], r.err)

\* the call that has returned nil last, after the probe has answered r
EnsureHistory(rec, r) ==
  IF r.next = "return" /\ r.err = Nil THEN <<rec.bucket, rec.key>> ELSE NoCall

\* the part of EnsurePathExists up to the probe's answer
EnsureBegin(t, rec, f) ==
  /\ Step(t, EnsureProbed([rec EXCEPT !.fault = f,
                                       !.leaked = ProbeStreams(backend,
                                          EnsureProbe(backend, store, rec.bucket, rec.key, f))],
                          EnsureProbe(backend, store, rec.bucket, rec.key, f),
                          lastEnsure = <<rec.bucket, rec.key>>), store)
  /\ lastEnsure' = EnsureHistory(rec, EnsureProbe(backend, store, rec.bucket, rec.key, f))
  /\ UNCHANGED lastUpload

\* a caller invokes storage.EnsurePathExists(ctx, b, p)
CallEnsurePathExists(t, b, p, f) ==
  /\ Begin(t)
  /\ EnsureBegin(t, [Idle EXCEPT !.op = "EnsurePathExists", !.bucket = b, !.key = p], f)

\* POST /upload/:bucket/*object, up to the probe of EnsurePathExists
UploadFileBegin(t, req, f) ==
  /\ Begin(t)
  /\ EnsureBegin(t, [Idle EXCEPT !.op = "uploadFile", !.bucket = req.bucket,
                                 !.key = req.object, !.body = req.body,
                                 !.contentType = req.contentType,
                                 !.contentLength = req.contentLength], f)

\* EnsurePathExists after a not-found probe: return CreateDirectory(dir)
EnsureCreate(t, f) ==
  /\ task[t].pc = "create"
  /\ LET rec == task[t]
         r == CreateDirectory(backend, store, rec.bucket, rec.dir, f)
     IN /\ Step(t, AfterEnsure([rec EXCEPT !.writes = IF r.err = Nil THEN @ + 1 ELSE @,
                                            !.ensured = (r.err = Nil),
                                            !.faultCreate = f], r.err), r.st)
        /\ lastEnsure' = IF r.err = Nil THEN <<rec.bucket, rec.key>> ELSE NoCall
        /\ lastUpload' = IF r.err = Nil THEN Forget(rec.bucket, MarkerName(rec.dir)) ELSE lastUpload
  /\ UNCHANGED calls

\* uploadFile after EnsurePathExists: headers, then storage.Upload with the
\* request's context, which the client may have cancelled by then
UploadFilePut(t, f, cancelled) ==
  /\ task[t].pc = "upload"
  /\ LET rec == task[t]
         contentType == IF rec.contentType = "" THEN OctetStream ELSE rec.contentType
         parsed == IF rec.contentLength # "" THEN ParseInt(rec.contentLength)
                   ELSE [err |-> FALSE, n |-> 0]
     IN IF parsed.err
        THEN /\ Step(t, [rec EXCEPT !.pc = "done", !.status = 400], store)
             /\ UNCHANGED <<lastEnsure, lastUpload>>
        ELSE LET r == UploadCtx(backend, cancelled, store, rec.bucket, rec.key, rec.body,
                                parsed.n, contentType, f)
             IN /\ Step(t, [rec EXCEPT !.pc = "done", !.err = r.err, !.cancelled = cancelled,
                                       !.uploads = 1,
                                       !.status = IF r.err # Nil THEN 500 ELSE 200,
                                       !.writes = IF r.err = Nil THEN @ + 1 ELSE @], r.st)
                /\ lastEnsure' = NoCall
                /\ lastUpload' = IF r.err = Nil
                                 THEN Remember(rec.bucket, rec.key, rec.body, contentType)
                                 ELSE lastUpload
  /\ UNCHANGED calls

\* ------------------------------------------------------------------------
\* Server.downloadFile, single file
\* ------------------------------------------------------------------------
\* "Use default bucket if not specified"
BucketOrDefault(b) == IF b = "" THEN DefaultBucket ELSE b

DownloadFileBegin(t, b, object, f) ==
  /\ Begin(t)
  /\ LET bucket == BucketOrDefault(b)
         r == Download(backend, store, bucket, object, f)
         rec == [Idle EXCEPT !.op = "downloadFile", !.bucket = bucket, !.key = object,
                             !.seen = IF Has(store, bucket, object)
                                      THEN store[<<bucket, object>>] ELSE NoVersion]
     IN Step(t, IF r.err # Nil THEN [rec EXCEPT !.pc = "done", !.err = r.err, !.status = 500]
                ELSE [rec EXCEPT !.pc = "info", !.stream = r.stream, !.open = @ + 1], store)
  /\ lastEnsure' = NoCall
  /\ UNCHANGED lastUpload

DownloadFileInfo(t, f) ==
  /\ task[t].pc = "info"
  /\ LET rec == task[t]
         r == GetObjectInfo(backend, store, rec.bucket, rec.key, f)
     IN Step(t, IF r.err # Nil
                THEN [rec EXCEPT !.pc = "done", !.err = r.err, !.status = 500,
                                 !.stream = NoStream, !.open = @ - 1]
                ELSE [rec EXCEPT !.pc = "copy", !.header = r.info.ContentType], store)
  /\ lastEnsure' = NoCall
  /\ UNCHANGED <<calls, lastUpload>>

DownloadFileCopy(t, f) ==
  /\ task[t].pc = "copy"
  /\ LET rec == task[t]
         c == CopyStream(rec.stream, store, f)
     IN Step(t, [rec EXCEPT !.pc = "done", !.out = c.data, !.err = c.err,
                            !.status = IF c.err # Nil /\ Len(c.data) = 0 THEN 500 ELSE 200,
                            !.stream = NoStream, !.open = @ - 1], store)
  /\ lastEnsure' = NoCall
  /\ UNCHANGED <<calls, lastUpload>>


\* ------------------------------------------------------------------------
\* Server.downloadFile, directory=true: the ZIP archive
\* ------------------------------------------------------------------------
\* prefix := object; if prefix != "" && !HasSuffix(prefix, "/") { prefix += "/" }
ArchivePrefix(object) ==
  IF object # <<>> /\ ~HasSuffixSlash(object) THEN object \o <<"/">> ELSE object

\* obj.Name[len(prefix):]
EntryName(name, prefix) == SubSeq(name, Len(prefix) + 1, Len(name))

\* IsSkippedDir that trusts the IsDir flag alone
IsSkippedDir_FlagOnly(obj) == obj.IsDir

\* "Skip directories"
IsSkippedDir(obj) == obj.IsDir \/ HasSuffixSlash(obj.Name)

DownloadDirBegin(t, b, object, f) ==
  /\ Begin(t)
  /\ LET bucket == BucketOrDefault(b)
         prefix == ArchivePrefix(object)
         r == List(backend, store, bucket, prefix, f)
         rec == [Idle EXCEPT !.op = "downloadDir", !.bucket = bucket, !.key = object,
                             !.prefix = prefix]
     IN Step(t, IF r.err # Nil THEN [rec EXCEPT !.pc = "done", !.err = r.err, !.status = 500]
                ELSE [rec EXCEPT !.pc = IF Len(r.objects) = 0 THEN "done" ELSE "zip",
                                 !.status = 200, !.header = "application/zip",
                                 !.objects = r.objects, !.idx = 1], store)
  /\ lastEnsure' = NoCall
  /\ UNCHANGED lastUpload

\* ArchiveIteration that gives up on the first failed Download
ArchiveIteration_AbortOnError(rec, obj, reader, fz, copied) ==
  LET next == [rec EXCEPT !.idx = @ + 1,
                          !.pc = IF rec.idx + 1 > Len(rec.objects) THEN "done" ELSE "zip"]
  IN IF obj.IsDir \/ HasSuffixSlash(obj.Name) THEN next
     ELSE IF reader.err # Nil
     THEN [rec EXCEPT !.pc = "done", !.err = reader.err, !.status = 500,
                      !.skipped = Append(@, obj.Name)]
     ELSE IF fz
     THEN [next EXCEPT !.skipped = Append(@, obj.Name)]
     ELSE [next EXCEPT
             !.zip = Append(@, [name |-> SubSeq(obj.Name, Len(rec.prefix) + 1, Len(obj.Name)),
                                data |-> copied.data]),
             !.skipped = IF copied.err # Nil THEN Append(@, obj.Name) ELSE @]

\* the body of "for _, obj := range objects" for obj, given the answer of
\* Download (reader), whether zipWriter.Create fails (fz) and what io.Copy
\* moves (copied): the request after the iteration
ArchiveIteration(rec, obj, reader, fz, copied) ==
  LET next == [rec EXCEPT !.idx = @ + 1,
                          !.pc = IF rec.idx + 1 > Len(rec.objects) THEN "done" ELSE "zip"]
  IN IF IsSkippedDir(obj) THEN next
     ELSE IF reader.err # Nil
     THEN [next EXCEPT !.skipped = Append(@, obj.Name)]
     ELSE IF fz
     THEN [next EXCEPT !.skipped = Append(@, obj.Name)]
     ELSE [next EXCEPT
             !.zip = Append(@, [name |-> EntryName(obj.Name, rec.prefix),
                                data |-> copied.data]),
             !.skipped = IF copied.err # Nil THEN Append(@, obj.Name) ELSE @]

\* ArchiveStreams without the reader.Close() after a failed zipWriter.Create
ArchiveStreams_NoCloseOnCreateError(next, obj, reader, fz) ==
  IF IsSkippedDir(obj) \/ reader.err # Nil THEN next
  ELSE IF fz THEN [next EXCEPT !.open = @ + 1]
  ELSE [next EXCEPT !.open = @ + 1 - 1]

\* the streams of one iteration of the archive loop: a successful Download
\* opens reader; reader.Close() follows a failed zipWriter.Create, and follows
\* io.Copy whatever it returns
ArchiveStreams(next, obj, reader, fz) ==
  IF IsSkippedDir(obj) \/ reader.err # Nil THEN next
  ELSE IF fz THEN [next EXCEPT !.open = @ + 1 - 1]
  ELSE [next EXCEPT !.open = @ + 1 - 1]

\* one iteration of the archive loop; fd, fz, fc: Download, zipWriter.Create,
\* io.Copy fail
DownloadDirNext(t, fd, fz, fc) ==
  /\ task[t].pc = "zip"
  /\ LET rec == task[t]
         obj == rec.objects[rec.idx]
         reader == Download(backend, store, rec.bucket, obj.Name, fd)
         copied == CopyStream(reader.stream, store, fc)
     IN Step(t, ArchiveStreams(ArchiveIteration(rec, obj, reader, fz, copied),
                               obj, reader, fz), store)
  /\ lastEnsure' = NoCall
  /\ UNCHANGED <<calls, lastUpload>>

\* ------------------------------------------------------------------------
\* Server.deleteObjects (prefix) and Server.deleteFile
\* ------------------------------------------------------------------------
\* DeleteObjectsListed that answers an empty listing with 404
DeleteObjectsListed_EmptyIsError(rec, r) ==
  IF r.err # Nil THEN [rec EXCEPT !.pc = "done", !.err = r.err, !.status = 500]
  ELSE [rec EXCEPT !.pc = IF Len(r.objects) = 0 THEN "done" ELSE "delete",
                   !.status = IF Len(r.objects) = 0 THEN 404 ELSE 0,
                   !.objects = r.objects, !.idx = 1]

\* deleteObjects once List has answered r
DeleteObjectsListed(rec, r) ==
  IF r.err # Nil THEN [rec EXCEPT !.pc = "done", !.err = r.err, !.status = 500]
  ELSE [rec EXCEPT !.pc = IF Len(r.objects) = 0 THEN "done" ELSE "delete",
                   !.status = IF Len(r.objects) = 0 THEN 200 ELSE 0,
                   !.objects = r.objects, !.idx = 1]

DeleteObjectsBegin(t, b, prefix, f) ==
  /\ Begin(t)
  /\ LET bucket == BucketOrDefault(b)
         r == List(backend, store, bucket, prefix, f)
         rec == [Idle EXCEPT !.op = "deleteObjects", !.bucket = bucket, !.prefix = prefix]
     IN Step(t, DeleteObjectsListed(rec, r), store)
  /\ lastEnsure' = NoCall
  /\ UNCHANGED lastUpload

\* DeleteIteration that ends the loop at the first failed Delete
DeleteIteration_StopOnError(rec, obj, r) ==
  LET last == rec.idx + 1 > Len(rec.objects)
      next == [rec EXCEPT !.idx = @ + 1,
                          !.pc = IF last THEN "done" ELSE "delete",
                          !.status = IF last THEN 200 ELSE 0,
                          !.attempts = Append(@, obj.Name)]
  IN IF r.err # Nil
     THEN [next EXCEPT !.errors = Append(@, [name |-> obj.Name, err |-> r.err]),
                       !.pc = "done", !.status = 200]
     ELSE [next EXCEPT !.deleted = Append(@, obj.Name)]

\* the body of "for _, obj := range objects" for obj, given the answer r of
\* Delete: the request after the iteration
DeleteIteration(rec, obj, r) ==
  LET last == rec.idx + 1 > Len(rec.objects)
      next == [rec EXCEPT !.idx = @ + 1,
                          !.pc = IF last THEN "done" ELSE "delete",
                          !.status = IF last THEN 200 ELSE 0,
                          !.attempts = Append(@, obj.Name)]
  IN IF r.err # Nil
     THEN [next EXCEPT !.errors = Append(@, [name |-> obj.Name, err |-> r.err])]
     ELSE [next EXCEPT !.deleted = Append(@, obj.Name)]

\* one iteration of the delete loop
DeleteObjectsNext(t, f) ==
  /\ task[t].pc = "delete"
  /\ LET rec == task[t]
         obj == rec.objects[rec.idx]
         r == Delete(backend, store, rec.bucket, obj.Name, f)
     IN /\ Step(t, DeleteIteration(rec, obj, r), r.st)
        /\ lastUpload' = IF r.err = Nil THEN Forget(rec.bucket, obj.Name) ELSE lastUpload
  /\ lastEnsure' = NoCall
  /\ UNCHANGED calls

DeleteFile(t, b, object, f) ==
  /\ Begin(t)
  /\ LET bucket == BucketOrDefault(b)
         r == Delete(backend, store, bucket, object, f)
         rec == [Idle EXCEPT !.op = "deleteFile", !.bucket = bucket, !.key = object]
     IN /\ Step(t, [rec EXCEPT !.pc = "done", !.err = r.err,
                               !.status = IF r.err # Nil THEN 500 ELSE 200], r.st)
        /\ lastUpload' = IF r.err = Nil THEN Forget(bucket, object) ELSE lastUpload
  /\ lastEnsure' = NoCall

\* ------------------------------------------------------------------------
\* ListDirectories (Storage interface call)
\* ------------------------------------------------------------------------
CallListDirectories(t, b, prefix, f) ==
  /\ Begin(t)
  /\ LET r == ListDirectories(backend, store, b, prefix, f)
         rec == [Idle EXCEPT !.op = "ListDirectories", !.bucket = b, !.prefix = prefix]
     IN Step(t, [rec EXCEPT !.pc = "done", !.err = r.err, !.objects = r.objects], store)
  /\ lastEnsure' = NoCall
  /\ UNCHANGED lastUpload

\* ------------------------------------------------------------------------
\* CreateDirectory (Storage interface call)
\* ------------------------------------------------------------------------
CreateDirectoryDone(rec, r) == [rec EXCEPT !.pc = "done", !.err = r.err,
                                           !.writes = IF r.err = Nil THEN 1 ELSE 0]

CallCreateDirectory(t, b, objectName, f) ==
  /\ Begin(t)
  /\ Step(t, CreateDirectoryDone([Idle EXCEPT !.op = "CreateDirectory", !.bucket = b,
                                              !.key = objectName],
                                 CreateDirectory(backend, store, b, objectName, f)),
          CreateDirectory(backend, store, b, objectName, f).st)
  /\ lastUpload' = IF CreateDirectory(backend, store, b, objectName, f).err # Nil
                   THEN lastUpload ELSE Forget(b, MarkerName(objectName))
  /\ lastEnsure' = NoCall

\* the response has been delivered; the slot serves the next request
Finish(t) ==
  /\ task[t].pc = "done"
  /\ task' = [task EXCEPT ![t] = Idle]
  /\ UNCHANGED <<backend, store, calls, lastUpload, lastEnsure>>

Next ==
  \E t \in Tasks :
    \/ \E c \in EnsureCalls, f \in BOOLEAN : CallEnsurePathExists(t, c[1], c[2], f)
    \/ \E req \in UploadRequests, f \in BOOLEAN : UploadFileBegin(t, req, f)
    \/ \E f \in BOOLEAN : EnsureCreate(t, f)
    \/ \E f \in BOOLEAN, cancelled \in BOOLEAN : UploadFilePut(t, f, cancelled)
    \/ \E c \in DownloadFileRequests, f \in BOOLEAN : DownloadFileBegin(t, c[1], c[2], f)
    \/ \E f \in BOOLEAN : DownloadFileInfo(t, f)
    \/ \E f \in BOOLEAN : DownloadFileCopy(t, f)
    \/ \E c \in DownloadDirRequests, f \in BOOLEAN : DownloadDirBegin(t, c[1], c[2], f)
    \/ \E fd \in BOOLEAN, fz \in BOOLEAN, fc \in BOOLEAN : DownloadDirNext(t, fd, fz, fc)
    \/ \E c \in DeleteObjectsRequests, f \in BOOLEAN : DeleteObjectsBegin(t, c[1], c[2], f)
    \/ \E f \in BOOLEAN : DeleteObjectsNext(t, f)
    \/ \E c \in DeleteFileRequests, f \in BOOLEAN : DeleteFile(t, c[1], c[2], f)
    \/ \E c \in ListDirectoriesCalls, f \in BOOLEAN : CallListDirectories(t, c[1], c[2], f)
    \/ \E c \in CreateDirectoryCalls, f \in BOOLEAN : CallCreateDirectory(t, c[1], c[2], f)
    \/ Finish(t)

Spec == Init /\ [][Next]_vars

\* the callers of storage.EnsurePathExists alone, running concurrently
NextEnsure ==
  \E t \in Tasks :
    \/ \E c \in EnsureCalls, f \in BOOLEAN : CallEnsurePathExists(t, c[1], c[2], f)
    \/ \E f \in BOOLEAN : EnsureCreate(t, f)
    \/ Finish(t)

SpecEnsure == Init /\ [][NextEnsure]_vars

TypeOK ==
  /\ backend \in Backends
  /\ calls \in 0..MaxCalls
  /\ \A t \in Tasks : task[t].pc \in {"idle", "create", "upload", "info", "copy", "zip", "delete", "done"}


\* ------------------------------------------------------------------------
\* Properties
\* ------------------------------------------------------------------------
Names(objects) == [i \in 1..Len(objects) |-> objects[i].Name]

NoDuplicates(seq) == \A i, j \in 1..Len(seq) : seq[i] = seq[j] => i = j

\* EnsurePathExists has returned nil to task t (as a call of its own, or inside
\* uploadFile, which then goes on to Upload)
EnsureReturnedNil(t) ==
  \/ task[t].op = "EnsurePathExists" /\ task[t].pc = "done" /\ task[t].err = Nil
  \/ task[t].op = "uploadFile" /\ task[t].pc = "upload"

\* C1: round trip.  While the latest write of a key is a successful Upload of
\* (bytes, contentType), Download of the key yields exactly those bytes and
\* GetObjectInfo reports that content type.
C1_RoundTrip ==
  \A x \in DOMAIN lastUpload :
    LET reader == Download(backend, store, x[1], x[2], FALSE)
        info == GetObjectInfo(backend, store, x[1], x[2], FALSE)
    IN /\ reader.err = Nil
       /\ CopyStream(reader.stream, store, FALSE) = [err |-> Nil, data |-> lastUpload[x].data]
       /\ info.err = Nil
       /\ info.info.ContentType = lastUpload[x].ctype

\* C2: EnsurePathExists is idempotent.  A call that directly follows a
\* successful call for the same bucket and path never reaches CreateDirectory,
\* writes nothing, and leaves the one marker of the parent directory in place.
C2_EnsureIdempotent ==
  \A t \in Tasks :
    task[t].repeat =>
      /\ task[t].pc # "create"
      /\ task[t].op = "EnsurePathExists" =>
           /\ task[t].pc = "done"
           /\ task[t].writes = 0
           /\ (task[t].err = Nil /\ Dir(task[t].key) \notin {<<".">>, <<"/">>}) =>
                Has(store, task[t].bucket, Dir(task[t].key) \o <<"/">>)

C2_Witness ==
  \E t \in Tasks :
    /\ task[t].repeat
    /\ task[t].op = "EnsurePathExists"
    /\ task[t].pc = "done"
    /\ task[t].err = Nil
    /\ task[t].probes = 1
    /\ task[t].writes = 0
    /\ Has(store, task[t].bucket, Dir(task[t].key) \o <<"/">>)

\* the ancestor directories of a name: every proper prefix that ends in "/"
Ancestors(name) == {SubSeq(name, 1, i) : i \in {j \in 1..(Len(name) - 1) : name[j] = "/"}}

\* C3: ListDirectories returns no two records with the same name; in the
\* synthesizing adapter (Azure) every ancestor directory of every listed blob
\* appears exactly once.
C3_NoDuplicateDirectories ==
  \A t \in Tasks :
    (task[t].op = "ListDirectories" /\ task[t].pc = "done") =>
      /\ NoDuplicates(Names(task[t].objects))
      /\ (backend = "azure" /\ task[t].err = Nil) =>
           \A k \in KeysWithPrefix(store, task[t].bucket, task[t].prefix) :
             \A d \in Ancestors(k) :
               Cardinality({i \in 1..Len(task[t].objects) : task[t].objects[i].Name = d}) = 1

\* a listing of more blobs than one page holds, with two descendants of the
\* same ancestor
C3_Witness ==
  \E t \in Tasks :
    /\ task[t].op = "ListDirectories" /\ task[t].pc = "done" /\ task[t].err = Nil
    /\ backend = "azure"
    /\ Cardinality(KeysWithPrefix(store, task[t].bucket, task[t].prefix)) > PageSize
    /\ {ax, ay, abc} \subseteq KeysWithPrefix(store, task[t].bucket, task[t].prefix)
    /\ {adir, abdir} \subseteq Range(Names(task[t].objects))

\* the listed objects that are content: not directory-flagged, no trailing "/"
ContentObjects(objects) ==
  SelectNames(Names(objects),
              {objects[i].Name : i \in {j \in 1..Len(objects) :
                                          ~objects[j].IsDir /\ ~HasSuffixSlash(objects[j].Name)}})

\* C4: archive build.  When no download, entry creation or copy failed and
\* nobody else wrote the store, the archive holds exactly one entry per listed
\* content object, in listing order, named by the key without the prefix and
\* holding the object's bytes; directory markers give no entry.
C4_ArchiveEntries ==
  \A t \in Tasks :
    (task[t].op = "downloadDir" /\ task[t].pc = "done" /\ task[t].err = Nil
       /\ task[t].skipped = <<>> /\ ~task[t].dirty) =>
      LET files == ContentObjects(task[t].objects) IN
      /\ task[t].prefix = <<>> \/ HasSuffixSlash(task[t].prefix)
      /\ Len(task[t].zip) = Len(files)
      /\ \A i \in 1..Len(files) :
           /\ task[t].zip[i].name = SubSeq(files[i], Len(task[t].prefix) + 1, Len(files[i]))
           /\ Has(store, task[t].bucket, files[i])
           /\ task[t].zip[i].data = store[<<task[t].bucket, files[i]>>].data

\* objects a/x, a/y and the marker a/ give exactly the entries x and y
C4_Witness ==
  \E t \in Tasks :
    /\ task[t].op = "downloadDir" /\ task[t].pc = "done" /\ task[t].err = Nil
    /\ task[t].skipped = <<>> /\ ~task[t].dirty
    /\ Names(task[t].objects) = <<adir, ax, ay>>
    /\ task[t].zip = <<[name |-> <<"x">>, data |-> <<7>>], [name |-> <<"y">>, data |-> <<7>>]>>


\* C5: partial failure in the archive build.  Whatever becomes undownloadable
\* after the listing, the loop goes through the whole listing, the response
\* stays a 200 ZIP without an error, and every listed content object whose own
\* download, entry creation and copy did not fail has exactly one entry.
C5_ArchivePartialFailure ==
  \A t \in Tasks :
    task[t].op = "downloadDir" =>
      /\ task[t].pc = "zip" => (task[t].idx \in 1..Len(task[t].objects) /\ task[t].status = 200)
      /\ (task[t].pc = "done" /\ task[t].objects # <<>>) =>
           /\ task[t].idx = Len(task[t].objects) + 1
           /\ task[t].status = 200
           /\ task[t].err = Nil
           /\ \A n \in Range(ContentObjects(task[t].objects)) :
                n \notin Range(task[t].skipped) =>
                  Cardinality({i \in 1..Len(task[t].zip) :
                                 task[t].zip[i].name = SubSeq(n, Len(task[t].prefix) + 1, Len(n))}) = 1

\* a/x is deleted by another request between List and its Download; the
\* archive completes with the entry of a/y
C5_Witness ==
  \E t \in Tasks :
    /\ task[t].op = "downloadDir" /\ task[t].pc = "done" /\ task[t].status = 200
    /\ task[t].dirty
    /\ ax \in Range(Names(task[t].objects))
    /\ ~Has(store, task[t].bucket, ax)
    /\ ax \in Range(task[t].skipped)
    /\ Has(store, task[t].bucket, ay)
    /\ \E i \in 1..Len(task[t].zip) :
         task[t].zip[i] = [name |-> <<"y">>, data |-> store[<<task[t].bucket, ay>>].data]

\* the buckets and keys requests address
ValidBuckets == {"media", DefaultBucket}
ProbeKeys == {ax, ay, abc, zkey, adir, abdir}

\* C6: on a key that is absent from the store (and a provider that answers),
\* GetObjectInfo returns a not-found error and Download returns a not-found
\* error.
C6_AbsentKeyNotFound ==
  \A b \in ValidBuckets, k \in ProbeKeys :
    ~Has(store, b, k) =>
      /\ IsNotFound(GetObjectInfo(backend, store, b, k, FALSE).err)
      /\ IsNotFound(Download(backend, store, b, k, FALSE).err)

\* C7: a prefix delete whose List returns no object answers 200 with an empty
\* deleted list and an empty error list, and has called Delete for nothing.
C7_DeleteEmptyPrefix ==
  \A t \in Tasks :
    (task[t].op = "deleteObjects" /\ task[t].pc = "done" /\ task[t].err = Nil
       /\ task[t].objects = <<>>) =>
      /\ task[t].status = 200
      /\ task[t].deleted = <<>>
      /\ task[t].errors = <<>>
      /\ task[t].attempts = <<>>

C7_Witness ==
  \E t \in Tasks :
    /\ task[t].op = "deleteObjects" /\ task[t].pc = "done" /\ task[t].err = Nil
    /\ task[t].objects = <<>>
    /\ task[t].status = 200
    /\ KeysWithPrefix(store, task[t].bucket, task[t].prefix) = {}
    /\ store # <<>>

\* C8: prefix delete over a listing.  Delete is attempted once per listed
\* name, in listing order; each attempted name is in exactly one of deleted
\* and errors; a failure does not end the loop; and what was deleted stays
\* deleted (as long as nobody else writes the store).
C8_DeleteLoop ==
  \A t \in Tasks :
    (task[t].op = "deleteObjects" /\ task[t].err = Nil /\ task[t].pc \in {"delete", "done"}) =>
      LET names == Names(task[t].objects)
          errorNames == {task[t].errors[i].name : i \in 1..Len(task[t].errors)}
      IN /\ task[t].attempts = SubSeq(names, 1, task[t].idx - 1)
         /\ task[t].pc = "done" => task[t].attempts = names
         /\ task[t].pc = "delete" => task[t].idx <= Len(names)
         /\ Len(task[t].deleted) + Len(task[t].errors) = Len(task[t].attempts)
         /\ \A n \in Range(task[t].attempts) :
              (n \in Range(task[t].deleted)) # (n \in errorNames)
         /\ ~task[t].dirty => \A n \in Range(task[t].deleted) : ~Has(store, task[t].bucket, n)

\* the first Delete succeeded, the second failed, a later one succeeded again
C8_Witness ==
  \E t \in Tasks :
    /\ task[t].op = "deleteObjects" /\ task[t].pc = "done" /\ ~task[t].dirty
    /\ Len(task[t].objects) = 3
    /\ task[t].deleted = <<task[t].objects[1].Name, task[t].objects[3].Name>>
    /\ Len(task[t].errors) = 1 /\ task[t].errors[1].name = task[t].objects[2].Name
    /\ ~Has(store, task[t].bucket, task[t].objects[1].Name)
    /\ Has(store, task[t].bucket, task[t].objects[2].Name)

\* C9: after EnsurePathExists has returned nil for a path whose parent is not
\* the root, an object exists at parent + "/" (as long as nobody else writes
\* the store); the call goes to CreateDirectory exactly when the probe found no
\* marker, and what it then wrote is the zero-length directory marker.
C9_EnsureCreatesParentMarker ==
  \A t \in Tasks :
    LET parent == Dir(task[t].key)
        marker == parent \o <<"/">>
    IN (task[t].op \in {"EnsurePathExists", "uploadFile"} /\ parent \notin {<<".">>, <<"/">>}
          /\ ~task[t].dirty) =>
         /\ EnsureReturnedNil(t) => Has(store, task[t].bucket, marker)
         /\ task[t].pc = "create" => (task[t].dir = marker /\ ~Has(store, task[t].bucket, marker))
         /\ (EnsureReturnedNil(t) /\ task[t].writes = 1) =>
              store[<<task[t].bucket, marker>>] = [data |-> <<>>, ctype |-> DirectoryType]

C9_Witness ==
  \E t \in Tasks :
    /\ task[t].op = "EnsurePathExists" /\ task[t].pc = "done" /\ task[t].err = Nil
    /\ task[t].key = abc
    /\ task[t].writes = 1
    /\ store[<<task[t].bucket, abdir>>] = [data |-> <<>>, ctype |-> DirectoryType]

\* C10: after EnsurePathExists has returned nil, a marker exists for every
\* ancestor directory of the object path (as long as nobody else writes the
\* store).
C10_EnsureCreatesAllAncestors ==
  \A t \in Tasks :
    (EnsureReturnedNil(t) /\ ~task[t].dirty) =>
      \A d \in Ancestors(task[t].key) : Has(store, task[t].bucket, d)

\* C11: a CreateDirectory(bucket, objectName) that returns nil has written
\* exactly one object: its key is objectName, with "/" appended unless
\* objectName ends with "/" already; it has no content and the content type
\* application/directory; every other key is as it was
C11_CreateDirectoryWritesOneMarker ==
  [][\A t \in Tasks :
       (task[t].pc = "idle" /\ task'[t].op = "CreateDirectory" /\ task'[t].err = Nil)
       => LET name == task'[t].key
              key == IF name # <<>> /\ name[Len(name)] = "/" THEN name
                     ELSE name \o <<"/">>
              at == <<task'[t].bucket, key>>
          IN /\ DOMAIN store' = (DOMAIN store) \cup {at}
             /\ store'[at] = [data |-> <<>>, ctype |-> "application/directory"]
             /\ \A x \in (DOMAIN store) \ {at} : store'[x] = store[x]]_vars

\* a CreateDirectory of "a" has returned nil and the marker a/ is there
C11_Witness ==
  \E t \in Tasks :
    /\ task[t].op = "CreateDirectory" /\ task[t].pc = "done" /\ task[t].err = Nil
    /\ task[t].key = <<"a">>
    /\ <<"media", adir>> \in DOMAIN store
    /\ store[<<"media", adir>>] = Marker
    /\ <<"media", <<"a">>>> \notin DOMAIN store

\* C12: directory naming.  Every directory marker in the store (written by
\* CreateDirectory or EnsurePathExists) and every record that ListDirectories
\* has returned has a name that ends with exactly one "/"
C12_DirectoryNames ==
  /\ \A x \in DOMAIN store :
        store[x].ctype = "application/directory"
        => /\ Len(x[2]) >= 1 /\ x[2][Len(x[2])] = "/"
           /\ Len(x[2]) >= 2 => x[2][Len(x[2]) - 1] # "/"
  /\ \A t \in Tasks :
        (task[t].op = "ListDirectories" /\ task[t].pc = "done")
        => \A i \in 1..Len(task[t].objects) :
             LET n == task[t].objects[i].Name
             IN /\ Len(n) >= 1 /\ n[Len(n)] = "/"
                /\ Len(n) >= 2 => n[Len(n) - 1] # "/"

\* C13: List returns exactly the stored objects under the prefix.  Right after
\* the handler's List call (nothing deleted or archived yet, no write by
\* another request since) the listing holds the name of every stored object
\* of the bucket that starts with the prefix, and no other name, also when
\* there are more of them than one page of the backend
C13_ListComplete ==
  \A t \in Tasks :
    (/\ task[t].op \in {"downloadDir", "deleteObjects"}
     /\ task[t].pc \in {"zip", "delete"}
     /\ task[t].idx = 1
     /\ ~task[t].dirty)
    => Range(Names(task[t].objects))
         = {x[2] : x \in {y \in DOMAIN store :
                             /\ y[1] = task[t].bucket
                             /\ Len(y[2]) >= Len(task[t].prefix)
                             /\ SubSeq(y[2], 1, Len(task[t].prefix)) = task[t].prefix}}

\* C14: ListDirectories is uniform across the backends.  The names a call has
\* returned are the names each of the four adapters returns for the same
\* bucket content and the same prefix
C14_ListDirectoriesUniform ==
  \A t \in Tasks :
    (task[t].op = "ListDirectories" /\ task[t].pc = "done" /\ task[t].err = Nil)
    => \A be \in Backends :
         Range(Names(ListDirectories(be, store, task[t].bucket, task[t].prefix, FALSE).objects))
           = Range(Names(task[t].objects))

\* C15: error taxonomy.  Every error a Storage operation has returned to its
\* caller (EnsurePathExists, CreateDirectory and ListDirectories called
\* directly; Upload and Delete as the handlers receive them) is of one of the
\* kinds NotFound, InvalidArgument, Backend, never the provider's own error
C15_ErrorTaxonomy ==
  \A t \in Tasks :
    (/\ task[t].op \in {"EnsurePathExists", "CreateDirectory", "ListDirectories",
                        "uploadFile", "deleteFile"}
     /\ task[t].pc = "done"
     /\ task[t].err # Nil)
    => task[t].err.type \in {"NotFound", "InvalidArgument", "Backend"}

\* C16: DELETE /delete/:bucket/<prefix> deletes all files with the prefix.
\* When the request served by the route has answered 200, no object of the
\* bucket has a name that starts with the path of the request
C16_DeleteRouteRemovesPrefix ==
  \A t \in Tasks :
    (task[t].op = "deleteFile" /\ task[t].pc = "done" /\ task[t].status = 200)
    => \A x \in DOMAIN store :
         ~(/\ x[1] = task[t].bucket
           /\ Len(x[2]) >= Len(task[t].key)
           /\ SubSeq(x[2], 1, Len(task[t].key)) = task[t].key)

\* C17: default bucket substitution.  The bucket a request handler passes to
\* its backend calls (EnsurePathExists, Upload, Download, GetObjectInfo, List,
\* Delete) is never the empty name: an empty bucket of the route has been
\* replaced by the configured default
C17_DefaultBucket ==
  \A t \in Tasks :
    task[t].op \in {"uploadFile", "downloadFile", "downloadDir", "deleteObjects", "deleteFile"}
    => task[t].bucket # ""

\* C18: cancellation.  When the request's context is cancelled by the time
\* uploadFile calls Upload, the call returns an error and the store is as it
\* was before the call
C18_CancelAborts ==
  [][\A t \in Tasks :
       (task[t].pc = "upload" /\ task'[t].pc = "done" /\ task'[t].cancelled)
       => (task'[t].err # Nil /\ store' = store)]_vars

\* C19: a failed item is skipped.  An object of the listing whose Download,
\* entry creation or byte copy has failed has no entry in the archive, neither
\* an empty nor a truncated one
C19_FailedItemHasNoEntry ==
  \A t \in Tasks :
    task[t].op = "downloadDir"
    => \A i \in 1..Len(task[t].zip) :
         \A j \in 1..Len(task[t].skipped) :
           task[t].prefix \o task[t].zip[i].name # task[t].skipped[j]

\* C20: in uploadFile, Upload is invoked only after EnsurePathExists for the
\* request's bucket and path has returned nil; when EnsurePathExists has
\* returned an error the request ends with an error response and without an
\* Upload call
C20_UploadAfterEnsure ==
  \A t \in Tasks :
    task[t].op = "uploadFile"
    => /\ task[t].uploads > 0 => task[t].ensured
       /\ (task[t].pc \in {"upload", "done"} /\ ~task[t].ensured)
          => /\ task[t].pc = "done"
             /\ task[t].status = 500
             /\ task[t].err # Nil
             /\ task[t].uploads = 0

\* an upload of a/x whose EnsurePathExists has failed at the probe: the
\* request is over, nothing is stored at a/x
C20_Witness ==
  \E t \in Tasks :
    /\ task[t].op = "uploadFile" /\ task[t].pc = "done"
    /\ task[t].key = ax /\ task[t].probes = 1
    /\ ~task[t].ensured
    /\ task[t].status = 500
    /\ <<"media", ax>> \notin DOMAIN store

\* C21: EnsurePathExists, on every adapter.  When the existence probe fails
\* with an error other than not-found (the request fails, the bucket name is
\* rejected), the call returns that error, CreateDirectory is not called and
\* the store is unchanged; when the path has no parent directory the call
\* returns nil without a probe and without a write
C21_EnsureProbeError ==
  [][\A t \in Tasks :
       (task[t].pc = "idle" /\ task'[t].op \in {"EnsurePathExists", "uploadFile"})
       => LET rec == task'[t]
              hasParent == \E i \in 1..Len(rec.key) : rec.key[i] = "/"
          IN /\ (hasParent /\ (rec.fault \/ rec.bucket = ""))
                => /\ rec.pc = "done"
                   /\ rec.err # Nil
                   /\ rec.err.code # "NoSuchKey"
                   /\ rec.writes = 0
                   /\ store' = store
             /\ ~hasParent
                => /\ rec.probes = 0
                   /\ rec.writes = 0
                   /\ rec.ensured
                   /\ rec.pc # "create"
                   /\ rec.err = Nil
                   /\ store' = store]_vars

\* EnsurePathExists for a/b/c has ended at a failed probe: the error is
\* returned and there is no marker a/b/
C21_Witness ==
  \E t \in Tasks :
    /\ task[t].op = "EnsurePathExists" /\ task[t].pc = "done"
    /\ task[t].key = abc /\ task[t].fault
    /\ task[t].err = RequestFailed
    /\ task[t].probes = 1 /\ task[t].writes = 0
    /\ <<"media", abdir>> \notin DOMAIN store

\* C22: every stream a successful Download has returned to downloadFile is
\* closed exactly once.  A single-file download holds its one stream until
\* GetObjectInfo fails or the copy is over, and none when the request is over;
\* the archive build holds no stream between two iterations and at its end,
\* so the stream of an object is closed before the next Download
C22_StreamsClosed ==
  \A t \in Tasks :
    /\ task[t].open \in {0, 1}
    /\ (task[t].op = "downloadFile" /\ task[t].pc \in {"info", "copy"})
       => (task[t].open = 1 /\ task[t].stream # NoStream)
    /\ ~(task[t].op = "downloadFile" /\ task[t].pc \in {"info", "copy"})
       => (task[t].open = 0 /\ task[t].stream = NoStream)

\* an archive build is over in which one object has an entry and another
\* one was given up: no stream is open
C22_Witness ==
  \E t \in Tasks :
    /\ task[t].op = "downloadDir" /\ task[t].pc = "done"
    /\ Len(task[t].zip) >= 1
    /\ Len(task[t].skipped) >= 1
    /\ Len(task[t].zip) + Len(task[t].skipped) >= 2
    /\ task[t].open = 0

\* C23: every stored object whose key ends with "/" is a directory marker: it
\* has no content and the content type application/directory
C23_SlashKeysAreMarkers ==
  \A x \in DOMAIN store :
    (Len(x[2]) >= 1 /\ x[2][Len(x[2])] = "/")
    => (store[x].data = <<>> /\ store[x].ctype = "application/directory")

\* C24: an upload request that ends with an error response (EnsurePathExists
\* has failed, the Content-Length header is invalid, Upload has failed) has
\* written nothing: neither an object nor a directory marker
C24_FailedUploadWritesNothing ==
  \A t \in Tasks :
    (task[t].op = "uploadFile" /\ task[t].pc = "done" /\ task[t].status # 200)
    => task[t].writes = 0

\* C25: a single-file download that has answered 200 has sent the content
\* type and the bytes of one version of the object: the one stored when
\* Download was called, or the one stored now (with one concurrent writer
\* there is no third)
C25_DownloadOneVersion ==
  \A t \in Tasks :
    (/\ task[t].op = "downloadFile" /\ task[t].pc = "done"
     /\ task[t].status = 200 /\ task[t].err = Nil)
    => \/ [data |-> task[t].out, ctype |-> task[t].header] = task[t].seen
       \/ /\ <<task[t].bucket, task[t].key>> \in DOMAIN store
          /\ [data |-> task[t].out, ctype |-> task[t].header]
               = store[<<task[t].bucket, task[t].key>>]

\* C26: concurrent EnsurePathExists calls.  Whatever the interleaving of the
\* probes and creations of the calls, a call whose provider requests have not
\* failed returns nil, and the key of its parent directory then holds the one
\* zero-length marker
C26_ConcurrentEnsure ==
  \A t \in Tasks :
    (/\ task[t].op = "EnsurePathExists" /\ task[t].pc = "done"
     /\ ~task[t].fault /\ ~task[t].faultCreate)
    => /\ task[t].err = Nil
       /\ task[t].dir # <<>>
          => /\ <<task[t].bucket, task[t].dir>> \in DOMAIN store
             /\ store[<<task[t].bucket, task[t].dir>>] = Marker

\* two calls for a/x have both found the marker a/ absent; the other one has
\* created it since, and this one has created it again and returned nil
C26_Witness ==
  \E t \in Tasks :
    /\ task[t].op = "EnsurePathExists" /\ task[t].pc = "done"
    /\ task[t].key = ax /\ task[t].dir = adir
    /\ task[t].probes = 1 /\ task[t].writes = 1 /\ task[t].dirty
    /\ task[t].err = Nil
    /\ <<"media", abdir>> \notin DOMAIN store
    /\ store[<<"media", adir>>] = Marker

\* C27: no adapter operation leaves an open stream behind.  Every stream the
\* existence probe of EnsurePathExists has opened is closed when
\* EnsurePathExists returns
C27_NoLeakedStream ==
  \A t \in Tasks : task[t].leaked = 0

====
